---- MODULE Spec2Model ----
(***************************************************************************)
(* EduFlow (learn-connect): the enrollment logic of server/storage.ts and  *)
(* the routes of server/routes.ts that reach it, over the tables of the    *)
(* shared schema.  The store is a PostgreSQL database reached through      *)
(* drizzle-orm: every awaited query is one step, a transaction's writes    *)
(* become visible at its commit (read committed), and an UPDATE holds the  *)
(* row's lock until its transaction ends.                                  *)
(***************************************************************************)
EXTENDS Integers, Sequences, FiniteSets, TLC

\* ------------------------------------------------------------------ bounds
MaxCourses == 2
MaxEnrollments == 2
MaxAssignments == 2
MaxSubmissions == 2

\* ------------------------------------------------------------ populations
Students == {"s1", "s2"}
Teachers == {"t1", "t2"}
Users == Students \cup Teachers
Procs == {"p1", "p2"}

Role(u) == IF u \in Teachers THEN "teacher" ELSE "student"

Statuses == {"draft", "active", "archived"}
DefaultStatusActive == "active"
\* courses.status: text("status").notNull().default("draft")
DefaultStatus == "draft"
DefaultEnrollmentCount == 0

Absent == "absent"
\* request bodies of POST /api/courses and PUT /api/courses/:id
\* (a body is a partial record: a key the request leaves out is not in its domain)
CountInputs == {0}
EmptyBody == [k \in {} |-> Absent]
Has(body, key) == key \in DOMAIN body
CreateBodies == {EmptyBody} \cup [status : Statuses]
UpdateBodies == {EmptyBody} \cup [status : Statuses] \cup [enrollmentCount : CountInputs]
                    \cup [status : Statuses, enrollmentCount : CountInputs]

\* ------------------------------------------------------------ error texts
ErrCourseNotFound == "Course not found."
ErrNotActive == "Course is not active and cannot be enrolled in."
ErrAlreadyEnrolled == "Student is already enrolled in this course."
ErrCountUpdate == "Failed to update course enrollment count."
ErrUnexpected == "An unexpected error occurred during enrollment."
Ok == "ok"
NoRes == "none"

\* courses:     the courses table, a sequence: a course's serial id is its index
\* enrollments: the enrollments table as a bag, <<studentId, courseId>> |-> the
\*              number of rows of the pair (no code reads an enrollment's id)
\* procs:       the requests being served, each at one of its awaits
\* lastCall:    history: the enroll call answered last, if it ran alone, began
\*              with its course active and its student without a row, and no
\*              other request has written to the store since
\* assignments: the assignments table, a sequence indexed by the serial id,
\*              with the columns courseId and teacherId
\* submissions: the submissions table, a sequence indexed by the serial id
VARIABLES courses, enrollments, procs, lastCall, assignments, submissions

vars == <<courses, enrollments, procs, lastCall, assignments, submissions>>
subVars == <<assignments, submissions>>

\* ------------------------------------------------------------------ store
CourseIds == 1..MaxCourses
ExistingCourseIds == DOMAIN courses
Pairs == Students \X CourseIds

\* the rows of the enrollments table, one record for each pair that has rows
EnrollmentRows == {[studentId |-> pr[1], courseId |-> pr[2]] : pr \in {q \in Pairs : enrollments[q] > 0}}

RECURSIVE SumOver(_, _)
SumOver(f, S) == IF S = {} THEN 0
                 ELSE LET x == CHOOSE y \in S : TRUE IN f[x] + SumOver(f, S \ {x})

RowsOfPair(s, c) == enrollments[<<s, c>>]
RowsOfCourse(c) == SumOver(enrollments, Students \X {c})
TotalRows == SumOver(enrollments, Pairs)

\* drizzle-orm's select().where(a).where(b): each where() call assigns the
\* builder's single where slot, so the query runs with the condition of the
\* last call alone.  A condition is given as the set of the rows it matches.
WhereChain(rows, conditions) == rows \cap conditions[Len(conditions)]

\* ------------------------------------------------------------- processes
IdleProc == [pc |-> "idle", studentId |-> "none", courseId |-> 0, count |-> 0,
             res |-> NoRes, enrolled |-> {}, result |-> {},
             fresh |-> FALSE,
             assignmentId |-> 0, content |-> "none", submissionId |-> 0,
             row |-> 0, before |-> <<>>, submission |-> <<>>, pending |-> {}]
NoCall == [studentId |-> "none", courseId |-> 0, res |-> NoRes, count |-> 0]

TxPcs == {"tx_course", "tx_existing", "tx_insert", "tx_update", "tx_commit"}
Quiescent == \A p \in Procs : procs[p].pc = "idle"

\* the row lock an uncommitted UPDATE of a courses row holds
CourseLocked(c) == \E q \in Procs : procs[q].pc = "tx_commit" /\ procs[q].courseId = c

\* rows the table holds plus the inserts the open transactions may still make
RoomForRow == TotalRows + Cardinality({p \in Procs : procs[p].pc \in TxPcs}) < MaxEnrollments

Init ==
    /\ courses = <<>>
    /\ enrollments = [pr \in Pairs |-> 0]
    /\ procs = [p \in Procs |-> IdleProc]
    /\ lastCall = NoCall
    /\ assignments = <<>>
    /\ submissions = <<>>

\* ---------------------------------------------------------------- routes
\* POST /api/courses
CreateCourse(u, body) ==
    /\ Len(courses) < MaxCourses
    /\ Role(u) = "teacher"
    /\ courses' = Append(courses,
            [teacherId |-> u,
             status |-> IF Has(body, "status") THEN body.status ELSE DefaultStatus,
             enrollmentCount |-> DefaultEnrollmentCount])
    /\ lastCall' = NoCall
    /\ UNCHANGED <<enrollments, procs>>
    /\ UNCHANGED subVars

\* the authorization test of PUT /api/courses/:id
MayUpdate(u, course) == Role(u) = "teacher" /\ course.teacherId = u

\* storage.updateCourse: set(updates) with the request body as it came
ApplyUpdates(course, body) ==
    [course EXCEPT
        !.status = IF Has(body, "status") THEN body.status ELSE @,
        !.enrollmentCount = IF Has(body, "enrollmentCount") THEN body.enrollmentCount ELSE @]

\* PUT /api/courses/:id
PutCourse(u, id, body) ==
    /\ id \in ExistingCourseIds
    /\ MayUpdate(u, courses[id])
    /\ ~CourseLocked(id)
    /\ courses' = [courses EXCEPT ![id] = ApplyUpdates(@, body)]
    /\ lastCall' = NoCall
    /\ UNCHANGED <<enrollments, procs>>
    /\ UNCHANGED subVars

\* POST /api/enrollments: of the two handlers registered for the path, the
\* first answers every request: storage.createEnrollment with no check
PostEnrollments(u, c) ==
    /\ RoomForRow
    /\ Role(u) = "student"
    /\ enrollments' = [enrollments EXCEPT ![<<u, c>>] = @ + 1]
    /\ lastCall' = NoCall
    /\ UNCHANGED <<courses, procs>>
    /\ UNCHANGED subVars

\* ------------------------------------------- storage.enrollStudentInCourse
\* POST /api/courses/:courseId/enroll, up to the call of enrollStudentInCourse
EnrollBegin(p, u, c) ==
    /\ procs[p].pc = "idle"
    /\ Role(u) = "student"
    /\ RoomForRow
    /\ procs' = [procs EXCEPT ![p] = [IdleProc EXCEPT
            !.pc = "tx_course", !.studentId = u, !.courseId = c,
            !.fresh = c \in ExistingCourseIds /\ courses[c].status = "active" /\ RowsOfPair(u, c) = 0]]
    /\ lastCall' = IF Quiescent THEN lastCall ELSE NoCall
    /\ UNCHANGED <<courses, enrollments>>
    /\ UNCHANGED subVars

Finish(p, r) == [procs EXCEPT ![p].pc = "done", ![p].res = r]

\* if (course.status !== "active")
IsActiveNotArchived(course) == course.status # "archived"
IsActive(course) == course.status = "active"

\* 1. select the course; return if it is missing or not active
EnrollSelectCourse(p) ==
    /\ procs[p].pc = "tx_course"
    /\ LET c == procs[p].courseId IN
         procs' = IF c \notin ExistingCourseIds THEN Finish(p, ErrCourseNotFound)
                  ELSE IF ~IsActive(courses[c]) THEN Finish(p, ErrNotActive)
                  ELSE [procs EXCEPT ![p].pc = "tx_existing", ![p].count = courses[c].enrollmentCount]
    /\ UNCHANGED <<courses, enrollments, lastCall>>
    /\ UNCHANGED subVars

\* tx.select().from(enrollments).where(studentId = ..).where(courseId = ..)
ExistingEnrollment(s, c) ==
    LET byStudent == {e \in EnrollmentRows : e.studentId = s}
        byCourse == {e \in EnrollmentRows : e.courseId = c}
    IN  WhereChain(EnrollmentRows, <<byStudent, byCourse>>)

\* 2. return if the select finds a row
EnrollSelectExisting(p) ==
    /\ procs[p].pc = "tx_existing"
    /\ procs' = IF ExistingEnrollment(procs[p].studentId, procs[p].courseId) # {}
                THEN Finish(p, ErrAlreadyEnrolled)
                ELSE [procs EXCEPT ![p].pc = "tx_insert"]
    /\ UNCHANGED <<courses, enrollments, lastCall>>
    /\ UNCHANGED subVars

\* 3. tx.insert(enrollments): the row is the transaction's own until it commits
EnrollInsert(p) ==
    /\ procs[p].pc = "tx_insert"
    /\ procs' = [procs EXCEPT ![p].pc = "tx_update"]
    /\ UNCHANGED <<courses, enrollments, lastCall>>
    /\ UNCHANGED subVars

\* set({ enrollmentCount: (course.enrollmentCount || 0) + 1 })
NewCount(p) == procs[p].count + 1

\* 4. tx.update(courses): fails (the statement throws), or matches no row and
\* tx.rollback() throws, or takes the row's lock; a throw leaves the
\* transaction rolled back and is caught by the try around it
EnrollUpdateCount(p, throws) ==
    /\ procs[p].pc = "tx_update"
    /\ LET c == procs[p].courseId IN
         IF throws \/ c \notin ExistingCourseIds
         THEN procs' = Finish(p, ErrUnexpected)
         ELSE /\ ~CourseLocked(c)
              /\ procs' = [procs EXCEPT ![p].pc = "tx_commit"]
    /\ UNCHANGED <<courses, enrollments, lastCall>>
    /\ UNCHANGED subVars

\* the transaction commits: its insert and its update reach the tables
EnrollCommit(p) ==
    /\ procs[p].pc = "tx_commit"
    /\ LET c == procs[p].courseId IN
         /\ courses' = [courses EXCEPT ![c].enrollmentCount = NewCount(p)]
         /\ enrollments' = [enrollments EXCEPT ![<<procs[p].studentId, c>>] = @ + 1]
    /\ procs' = Finish(p, Ok)
    /\ UNCHANGED lastCall
    /\ UNCHANGED subVars

\* a persistence failure: the statement the call is about to run, or its
\* commit, throws; the transaction is rolled back and the catch of
\* enrollStudentInCourse turns the throw into the unexpected-error result
EnrollFail(p) ==
    /\ procs[p].pc \in TxPcs
    /\ procs' = Finish(p, ErrUnexpected)
    /\ UNCHANGED <<courses, enrollments, lastCall>>
    /\ UNCHANGED subVars

\* the route answers: 201, 409, 404 or 500 by the result
EnrollRespond(p) ==
    /\ procs[p].pc = "done"
    /\ lastCall' = IF procs[p].fresh /\ \A q \in Procs \ {p} : procs[q].pc = "idle"
                    THEN [studentId |-> procs[p].studentId, courseId |-> procs[p].courseId,
                          res |-> procs[p].res, count |-> procs[p].count]
                    ELSE NoCall
    /\ procs' = [procs EXCEPT ![p] = IdleProc]
    /\ UNCHANGED <<courses, enrollments>>
    /\ UNCHANGED subVars

\* ------------------------------------ storage.getAvailableCoursesForStudent
\* GET /api/courses/available, up to the call of getAvailableCoursesForStudent
ListBegin(p, u) ==
    /\ procs[p].pc = "idle"
    /\ Role(u) = "student"
    /\ procs' = [procs EXCEPT ![p] = [IdleProc EXCEPT !.pc = "ls_enrollments", !.studentId = u]]
    /\ UNCHANGED <<courses, enrollments, lastCall>>
    /\ UNCHANGED subVars

\* select().from(enrollments).where(studentId = ..), mapped to the course ids
ListSelectEnrollments(p) ==
    /\ procs[p].pc = "ls_enrollments"
    /\ procs' = [procs EXCEPT ![p].pc = "ls_courses",
            ![p].enrolled = {e.courseId : e \in {r \in EnrollmentRows : r.studentId = procs[p].studentId}}]
    /\ UNCHANGED <<courses, enrollments, lastCall>>
    /\ UNCHANGED subVars

\* import { eq } from "drizzle-orm": the one name of drizzle-orm the module
\* binds.  A call of a name the module does not bind throws ReferenceError.
DrizzleImports == {"eq"}
Bound(names) == names \subseteq DrizzleImports

\* notInArray(courses.id, enrolledCourseIds)
NotInArray(id, ids) == id \notin ids

\* the courses the second select returns
AvailableGiven(enrolledCourseIds) ==
    IF enrolledCourseIds = {}
    THEN {c \in ExistingCourseIds : courses[c].status = "active"}
    ELSE {c \in ExistingCourseIds : courses[c].status = "active" /\ NotInArray(c, enrolledCourseIds)}

\* the second select: where(eq(..)) for a student without rows, and
\* where(and(eq(..), notInArray(..))) for a student with rows
ListSelectCourses(p) ==
    /\ procs[p].pc = "ls_courses"
    /\ procs' = IF procs[p].enrolled = {} \/ Bound({"and", "notInArray"})
                THEN [procs EXCEPT ![p].pc = "ls_done", ![p].result = AvailableGiven(procs[p].enrolled)]
                ELSE [procs EXCEPT ![p].pc = "ls_failed"]
    /\ UNCHANGED <<courses, enrollments, lastCall>>
    /\ UNCHANGED subVars

\* res.json(courses), or the catch's 500 "Failed to fetch available courses."
ListRespond(p) ==
    /\ procs[p].pc \in {"ls_done", "ls_failed"}
    /\ procs' = [procs EXCEPT ![p] = IdleProc]
    /\ UNCHANGED <<courses, enrollments, lastCall>>
    /\ UNCHANGED subVars

\* ------------------------------------------------ storage.getCoursesByStudent
\* GET /api/courses, up to the storage call its role selects
CoursesBegin(p, u) ==
    /\ procs[p].pc = "idle"
    /\ procs' = [procs EXCEPT ![p] = [IdleProc EXCEPT
            !.pc = IF Role(u) = "teacher" THEN "cl_teacher" ELSE "cl_enrollments",
            !.studentId = u]]
    /\ UNCHANGED <<courses, enrollments, lastCall>>
    /\ UNCHANGED subVars

\* storage.getCoursesByTeacher
CoursesByTeacher(p) ==
    /\ procs[p].pc = "cl_teacher"
    /\ procs' = [procs EXCEPT ![p].pc = "cl_done",
            ![p].result = {c \in ExistingCourseIds : courses[c].teacherId = procs[p].studentId}]
    /\ UNCHANGED <<courses, enrollments, lastCall>>
    /\ UNCHANGED subVars

\* the student's enrollments, mapped to the course ids; [] if there is none
CoursesSelectEnrollments(p) ==
    /\ procs[p].pc = "cl_enrollments"
    /\ LET courseIds == {e.courseId : e \in {r \in EnrollmentRows : r.studentId = procs[p].studentId}}
       IN  procs' = [procs EXCEPT ![p].pc = IF courseIds = {} THEN "cl_done" ELSE "cl_courses",
                                  ![p].enrolled = courseIds]
    /\ UNCHANGED <<courses, enrollments, lastCall>>
    /\ UNCHANGED subVars

\* what getCoursesByStudent returns for the course ids of its first select:
\* return await db.select().from(courses)
CoursesGiven(courseIds) == IF courseIds = {} THEN {} ELSE ExistingCourseIds

CoursesSelectCourses(p) ==
    /\ procs[p].pc = "cl_courses"
    /\ procs' = [procs EXCEPT ![p].pc = "cl_done", ![p].result = CoursesGiven(procs[p].enrolled)]
    /\ UNCHANGED <<courses, enrollments, lastCall>>
    /\ UNCHANGED subVars

\* res.json(courses)
CoursesRespond(p) ==
    /\ procs[p].pc = "cl_done"
    /\ procs' = [procs EXCEPT ![p] = IdleProc]
    /\ UNCHANGED <<courses, enrollments, lastCall>>
    /\ UNCHANGED subVars

\* ------------------------------------------------------------ submissions
AssignmentIds == 1..MaxAssignments
SubmissionIds == 1..MaxSubmissions
Contents == {"v1", "v2"}

\* a nullable column holds the empty set or the set of its one value
Null == {}
Grades == {{90}}
Feedbacks == {{"good"}}
\* submissions.status: text("status").notNull().default("pending")
DefaultSubmissionStatus == "pending"

\* request bodies of POST /api/submissions: insertSubmissionSchema leaves out
\* id and submittedAt alone, so a body may carry status, grade and feedback
SubmissionBodies == [assignmentId : AssignmentIds, content : Contents]
                        \cup [assignmentId : AssignmentIds, content : Contents,
                              status : {"graded"}, grade : Grades, feedback : Feedbacks]

ErrAssignmentNotFound == "Assignment not found."
ErrCourseNotFoundForAssignment == "Course not found for this assignment."
ErrNotEnrolled == "Student not enrolled in the course for this assignment."
ErrSubmissionNotFound == "Submission to update not found or access denied."
ErrDetailsNotFound == "Submission not found."
ErrDetailsAssignment == "Assignment not found for this submission."
ErrNotOwner == "Access denied. You are not the owner of this submission."
ErrNotTeacher == "Access denied. You are not the teacher of this course."

\* POST /api/assignments: the body's courseId is stored as it came, with the
\* caller as teacherId
CreateAssignment(u, c) ==
    /\ Len(assignments) < MaxAssignments
    /\ Role(u) = "teacher"
    /\ assignments' = Append(assignments, [courseId |-> c, teacherId |-> u])
    /\ UNCHANGED <<courses, enrollments, procs, lastCall, submissions>>

\* storage.getSubmissionByAssignmentAndStudent: where(assignmentId = ..) alone
SubmissionByAssignmentAndStudent(a, u) == {i \in DOMAIN submissions : submissions[i].assignmentId = a}

\* if (existing): POST /api/submissions answers 400 "Assignment already
\* submitted"
AlreadySubmitted(u, a) == SubmissionByAssignmentAndStudent(a, u) # {}

\* POST /api/submissions: 400 if the lookup finds a row, else createSubmission
PostSubmissions(u, body) ==
    /\ Len(submissions) < MaxSubmissions
    /\ Role(u) = "student"
    /\ SubmissionByAssignmentAndStudent(body.assignmentId, u) = {}
    /\ submissions' = Append(submissions,
            [assignmentId |-> body.assignmentId,
             studentId |-> u,
             content |-> body.content,
             status |-> IF Has(body, "status") THEN body.status ELSE DefaultSubmissionStatus,
             grade |-> IF Has(body, "grade") THEN body.grade ELSE Null,
             feedback |-> IF Has(body, "feedback") THEN body.feedback ELSE Null])
    /\ UNCHANGED <<courses, enrollments, procs, lastCall, assignments>>

\* ---------------------------------------- storage.createOrUpdateSubmission
SubmitPcs == {"sb_assignment", "sb_course", "sb_enrollment", "sb_existing", "sb_update", "sb_insert"}

\* POST /api/assignments/:assignmentId/submit, up to the storage call; sid = 0
\* is a body without submissionId; before: history, the table as the call found it
SubmitBegin(p, u, a, ct, sid) ==
    /\ procs[p].pc = "idle"
    /\ Role(u) = "student"
    /\ procs' = [procs EXCEPT ![p] = [IdleProc EXCEPT
            !.pc = "sb_assignment", !.studentId = u, !.assignmentId = a,
            !.content = ct, !.submissionId = sid, !.before = submissions]]
    /\ UNCHANGED <<courses, enrollments, lastCall>>
    /\ UNCHANGED subVars

SubmitFinish(p, r) == [procs EXCEPT ![p].pc = "sb_done", ![p].res = r]

\* 1. this.getAssignment(assignmentId)
SubmitGetAssignment(p) ==
    /\ procs[p].pc = "sb_assignment"
    /\ LET a == procs[p].assignmentId IN
         procs' = IF a \notin DOMAIN assignments THEN SubmitFinish(p, ErrAssignmentNotFound)
                  ELSE [procs EXCEPT ![p].pc = "sb_course", ![p].courseId = assignments[a].courseId]
    /\ UNCHANGED <<courses, enrollments, lastCall>>
    /\ UNCHANGED subVars

\* 2. this.getCourse(assignment.courseId)
SubmitGetCourse(p) ==
    /\ procs[p].pc = "sb_course"
    /\ procs' = IF procs[p].courseId \notin ExistingCourseIds
                THEN SubmitFinish(p, ErrCourseNotFoundForAssignment)
                ELSE [procs EXCEPT ![p].pc = "sb_enrollment"]
    /\ UNCHANGED <<courses, enrollments, lastCall>>
    /\ UNCHANGED subVars

\* select().from(enrollments).where(studentId = ..).where(courseId = ..)
EnrollmentForSubmit(s, c) ==
    LET byStudent == {e \in EnrollmentRows : e.studentId = s}
        byCourse == {e \in EnrollmentRows : e.courseId = c}
    IN  WhereChain(EnrollmentRows, <<byStudent, byCourse>>)

SubmitSelectEnrollment(p) ==
    /\ procs[p].pc = "sb_enrollment"
    /\ procs' = IF EnrollmentForSubmit(procs[p].studentId, procs[p].courseId) = {}
                THEN SubmitFinish(p, ErrNotEnrolled)
                ELSE [procs EXCEPT ![p].pc = "sb_existing"]
    /\ UNCHANGED <<courses, enrollments, lastCall>>
    /\ UNCHANGED subVars

ExistingSubmissionsByIdOnly(a, s, sid) ==
    IF sid # 0 THEN {i \in DOMAIN submissions : submissions[i].studentId = s} ELSE {}
\* 3. the ids of the rows the lookup of existingSubmission matches:
\* where(id = submissionIdToUpdate).where(studentId = ..) with a submission
\* id, where(assignmentId = ..).where(studentId = ..) without
ExistingSubmissions(a, s, sid) ==
    LET ids == DOMAIN submissions
        byId == {i \in ids : i = sid}
        byAssignment == {i \in ids : submissions[i].assignmentId = a}
        byStudent == {i \in ids : submissions[i].studentId = s}
    IN  IF sid # 0 THEN WhereChain(ids, <<byId, byStudent>>)
        ELSE WhereChain(ids, <<byAssignment, byStudent>>)

\* [existingSubmission] = the first of the matching rows, in the order the
\* database returns them: any of them
SubmitSelectExisting(p) ==
    /\ procs[p].pc = "sb_existing"
    /\ LET found == ExistingSubmissions(procs[p].assignmentId, procs[p].studentId, procs[p].submissionId) IN
         IF found = {}
         THEN procs' = IF procs[p].submissionId # 0 THEN SubmitFinish(p, ErrSubmissionNotFound)
                       ELSE [procs EXCEPT ![p].pc = "sb_insert"]
         ELSE \E i \in found : procs' = [procs EXCEPT ![p].pc = "sb_update", ![p].row = i]
    /\ UNCHANGED <<courses, enrollments, lastCall>>
    /\ UNCHANGED subVars

\* the update of the row found: set({content, submittedAt, status: 'resubmitted'})
\* (the model keeps no clock: submittedAt is not a field of its rows)
SubmitUpdate(p) ==
    /\ procs[p].pc = "sb_update"
    /\ submissions' = [submissions EXCEPT ![procs[p].row].content = procs[p].content,
                                          ![procs[p].row].status = "resubmitted"]
    /\ procs' = SubmitFinish(p, Ok)
    /\ UNCHANGED <<courses, enrollments, lastCall, assignments>>

\* the insert of a new row, status 'submitted'
SubmitInsert(p) ==
    /\ procs[p].pc = "sb_insert"
    /\ Len(submissions) < MaxSubmissions
    /\ submissions' = Append(submissions,
            [assignmentId |-> procs[p].assignmentId,
             studentId |-> procs[p].studentId,
             content |-> procs[p].content,
             status |-> "submitted",
             grade |-> Null,
             feedback |-> Null])
    /\ procs' = [SubmitFinish(p, Ok) EXCEPT ![p].row = Len(submissions) + 1]
    /\ UNCHANGED <<courses, enrollments, lastCall, assignments>>

\* a persistence failure: the query the call is about to run rejects; no try
\* surrounds the awaits of createOrUpdateSubmission, so the call throws
SubmitFail(p) ==
    /\ procs[p].pc \in SubmitPcs
    /\ procs' = [procs EXCEPT ![p].pc = "sb_thrown"]
    /\ UNCHANGED <<courses, enrollments, lastCall>>
    /\ UNCHANGED subVars

\* the catch of the route answers 500 "Failed to submit assignment."
SubmitCatch(p) ==
    /\ procs[p].pc = "sb_thrown"
    /\ procs' = [procs EXCEPT ![p] = IdleProc]
    /\ UNCHANGED <<courses, enrollments, lastCall>>
    /\ UNCHANGED subVars

\* the status the route answers a returned call with: by the error's text, or
\* res.status(submissionId ? 200 : 201)
Includes(text, part) == part \in text
ErrorWords(r) ==
    IF r = ErrNotEnrolled THEN {"not enrolled"}
    ELSE IF r \in {ErrAssignmentNotFound, ErrCourseNotFoundForAssignment, ErrSubmissionNotFound}
    THEN {"not found"}
    ELSE {}
SubmitStatus(p) ==
    IF procs[p].res # Ok
    THEN IF Includes(ErrorWords(procs[p].res), "not found") THEN 404
         ELSE IF Includes(ErrorWords(procs[p].res), "not enrolled") THEN 403
         ELSE 400
    ELSE IF procs[p].submissionId # 0 THEN 200 ELSE 201

\* the route answers: 200 or 201 with the row, 404, 403 or 400 by the error
SubmitRespond(p) ==
    /\ procs[p].pc = "sb_done"
    /\ procs' = [procs EXCEPT ![p] = IdleProc]
    /\ UNCHANGED <<courses, enrollments, lastCall>>
    /\ UNCHANGED subVars

\* ------------------------------------------- storage.getSubmissionDetails
\* GET /api/submissions/:submissionId, up to the storage call; the caller's id
\* is kept in studentId whatever the caller's role
DetailsBegin(p, u, sid) ==
    /\ procs[p].pc = "idle"
    /\ procs' = [procs EXCEPT ![p] = [IdleProc EXCEPT
            !.pc = "sd_submission", !.studentId = u, !.submissionId = sid]]
    /\ UNCHANGED <<courses, enrollments, lastCall>>
    /\ UNCHANGED subVars

\* a return of getSubmissionDetails: an error, or the data with Ok
DetailsFinish(p, r, data) == [procs EXCEPT ![p].pc = "sd_done", ![p].res = r, ![p].result = data]

\* select().from(submissions).where(id = submissionId); the call keeps the
\* row as it read it
DetailsSelectSubmission(p) ==
    /\ procs[p].pc = "sd_submission"
    /\ LET sid == procs[p].submissionId IN
         procs' = IF sid \notin DOMAIN submissions THEN DetailsFinish(p, ErrDetailsNotFound, {})
                  ELSE [procs EXCEPT ![p].pc = "sd_assignment",
                                     ![p].submission = <<submissions[sid]>>,
                                     ![p].assignmentId = submissions[sid].assignmentId]
    /\ UNCHANGED <<courses, enrollments, lastCall>>
    /\ UNCHANGED subVars

\* this.getAssignment(submission.assignmentId)
DetailsGetAssignment(p) ==
    /\ procs[p].pc = "sd_assignment"
    /\ LET a == procs[p].assignmentId IN
         procs' = IF a \notin DOMAIN assignments THEN DetailsFinish(p, ErrDetailsAssignment, {})
                  ELSE [procs EXCEPT ![p].pc = "sd_course", ![p].courseId = assignments[a].courseId]
    /\ UNCHANGED <<courses, enrollments, lastCall>>
    /\ UNCHANGED subVars

\* a row of the users table: select().from(users) returns every column, the
\* password hash among them
Passwords == [u \in Users |-> "hash"]
UserRow(u) == [id |-> u, role |-> Role(u), password |-> Passwords[u]]
\* storage.getUser: the row, or undefined (the empty set); every caller's id
\* comes from its session and no code deletes a user
GetUser(u) == IF u \in Users THEN {UserRow(u)} ELSE {}

\* the object a successful call returns: the row with its id, the course and
\* student, which is undefined (the empty set) unless the caller is a teacher
DetailsData(p, studentData) ==
    {[id |-> procs[p].submissionId, submission |-> procs[p].submission[1],
      courseId |-> procs[p].courseId, student |-> studentData]}

\* the tests of the authorization check
NotOwner(u, row) == Role(u) = "student" /\ row.studentId # u
NotTeacherOfNever(u, course) == FALSE
NotTeacherOf(u, course) == Role(u) = "teacher" /\ course.teacherId # u

\* this.getCourse(assignment.courseId), then the authorization check
DetailsGetCourse(p) ==
    /\ procs[p].pc = "sd_course"
    /\ LET c == procs[p].courseId
           u == procs[p].studentId
       IN  procs' =
             IF c \notin ExistingCourseIds THEN DetailsFinish(p, ErrCourseNotFoundForAssignment, {})
             ELSE IF NotOwner(u, procs[p].submission[1]) THEN DetailsFinish(p, ErrNotOwner, {})
             ELSE IF NotTeacherOf(u, courses[c]) THEN DetailsFinish(p, ErrNotTeacher, {})
             ELSE IF Role(u) = "teacher" THEN [procs EXCEPT ![p].pc = "sd_user"]
             ELSE DetailsFinish(p, Ok, DetailsData(p, {}))
    /\ UNCHANGED <<courses, enrollments, lastCall>>
    /\ UNCHANGED subVars

\* this.getUser(submission.studentId), for a teacher, and the return
DetailsGetUser(p) ==
    /\ procs[p].pc = "sd_user"
    /\ procs' = DetailsFinish(p, Ok, DetailsData(p, GetUser(procs[p].submission[1].studentId)))
    /\ UNCHANGED <<courses, enrollments, lastCall>>
    /\ UNCHANGED subVars

\* the route answers: 200 with the data, 404 or 403 by the error's text
DetailsRespond(p) ==
    /\ procs[p].pc = "sd_done"
    /\ procs' = [procs EXCEPT ![p] = IdleProc]
    /\ UNCHANGED <<courses, enrollments, lastCall>>
    /\ UNCHANGED subVars

\* ---------------------------------------- storage.getAssignmentsForCourse
ErrTeacherNotAuthorized == "Teacher not authorized for this course."
ErrStudentNotEnrolled == "Student not enrolled in this course."
NotSubmitted == "not-submitted"

\* GET /api/courses/:courseId/assignments, up to the storage call
AssignmentsBegin(p, u, c) ==
    /\ procs[p].pc = "idle"
    /\ procs' = [procs EXCEPT ![p] = [IdleProc EXCEPT
            !.pc = "as_course", !.studentId = u, !.courseId = c]]
    /\ UNCHANGED <<courses, enrollments, lastCall>>
    /\ UNCHANGED subVars

AssignmentsFinish(p, r, data) ==
    [procs EXCEPT ![p].pc = "as_done", ![p].res = r, ![p].result = data, ![p].pending = {}]

\* this.getCourse(courseId); a teacher goes on to the teacher test with no
\* await in between
AssignmentsGetCourse(p) ==
    /\ procs[p].pc = "as_course"
    /\ LET c == procs[p].courseId
           u == procs[p].studentId
       IN  procs' =
             IF c \notin ExistingCourseIds THEN AssignmentsFinish(p, ErrCourseNotFound, {})
             ELSE IF Role(u) = "student" THEN [procs EXCEPT ![p].pc = "as_enrollment"]
             ELSE IF courses[c].teacherId # u THEN AssignmentsFinish(p, ErrTeacherNotAuthorized, {})
             ELSE [procs EXCEPT ![p].pc = "as_assignments"]
    /\ UNCHANGED <<courses, enrollments, lastCall>>
    /\ UNCHANGED subVars

\* select().from(enrollments).where(studentId = ..).where(courseId = ..)
EnrollmentForAssignments(s, c) ==
    LET byStudent == {e \in EnrollmentRows : e.studentId = s}
        byCourse == {e \in EnrollmentRows : e.courseId = c}
    IN  WhereChain(EnrollmentRows, <<byStudent, byCourse>>)

AssignmentsSelectEnrollment(p) ==
    /\ procs[p].pc = "as_enrollment"
    /\ procs' = IF EnrollmentForAssignments(procs[p].studentId, procs[p].courseId) = {}
                THEN AssignmentsFinish(p, ErrStudentNotEnrolled, {})
                ELSE [procs EXCEPT ![p].pc = "as_assignments"]
    /\ UNCHANGED <<courses, enrollments, lastCall>>
    /\ UNCHANGED subVars

\* an assignment of the result: undefined fields are the empty set
Unannotated(a) == [id |-> a, submissionStatus |-> {}, submissionId |-> {}, grade |-> {}]
Annotated(a, found) ==
    IF found = {} THEN [id |-> a, submissionStatus |-> {NotSubmitted}, submissionId |-> {}, grade |-> {}]
    ELSE LET i == CHOOSE j \in found : TRUE
         IN  [id |-> a, submissionStatus |-> {submissions[i].status}, submissionId |-> {i},
              grade |-> submissions[i].grade]

\* select().from(assignments).where(courseId = ..); a teacher's call returns
\* the assignments, a student's starts one submissions query for each
AssignmentsSelectAssignments(p) ==
    /\ procs[p].pc = "as_assignments"
    /\ LET courseAssignments == {a \in DOMAIN assignments : assignments[a].courseId = procs[p].courseId}
       IN  procs' =
             IF Role(procs[p].studentId) = "teacher" \/ courseAssignments = {}
             THEN AssignmentsFinish(p, Ok, {Unannotated(a) : a \in courseAssignments})
             ELSE [procs EXCEPT ![p].pc = "as_submissions", ![p].pending = courseAssignments,
                                ![p].result = {}]
    /\ UNCHANGED <<courses, enrollments, lastCall>>
    /\ UNCHANGED subVars

\* select().from(submissions).where(assignmentId = ..).where(studentId = ..)
SubmissionsForAssignment(a, s) ==
    LET ids == DOMAIN submissions
        byAssignment == {i \in ids : submissions[i].assignmentId = a}
        byStudent == {i \in ids : submissions[i].studentId = s}
    IN  WhereChain(ids, <<byAssignment, byStudent>>)

\* one query of the Promise.all, in any order; [submission] is the first row
\* in the order the database returns them: any of them
AssignmentsSelectSubmission(p) ==
    /\ procs[p].pc = "as_submissions"
    /\ \E a \in procs[p].pending :
         LET found == SubmissionsForAssignment(a, procs[p].studentId)
         IN  \E pick \in (IF found = {} THEN {{}} ELSE {{i} : i \in found}) :
               LET data == procs[p].result \cup {Annotated(a, pick)}
               IN  procs' = IF procs[p].pending = {a}
                            THEN AssignmentsFinish(p, Ok, data)
                            ELSE [procs EXCEPT ![p].pending = @ \ {a}, ![p].result = data]
    /\ UNCHANGED <<courses, enrollments, lastCall>>
    /\ UNCHANGED subVars

\* the route answers: 200 with the list, 404 or 403 by the error
AssignmentsRespond(p) ==
    /\ procs[p].pc = "as_done"
    /\ procs' = [procs EXCEPT ![p] = IdleProc]
    /\ UNCHANGED <<courses, enrollments, lastCall>>
    /\ UNCHANGED subVars

\* ---------------------------------------------------------- GET /api/auth/me
\* const { password: _, ...userWithoutPassword } = user
WithoutPassword(row) == [k \in DOMAIN row \ {"password"} |-> row[k]]

\* the request of a session's user, up to storage.getUser
MeBegin(p, u) ==
    /\ procs[p].pc = "idle"
    /\ procs' = [procs EXCEPT ![p] = [IdleProc EXCEPT !.pc = "me_user", !.studentId = u]]
    /\ UNCHANGED <<courses, enrollments, lastCall>>
    /\ UNCHANGED subVars

\* storage.getUser(req.session.userId); the body of the answer is the row
\* without its password
MeGetUser(p) ==
    /\ procs[p].pc = "me_user"
    /\ procs' = [procs EXCEPT ![p].pc = "me_done", ![p].res = Ok,
                              ![p].result = {WithoutPassword(row) : row \in GetUser(procs[p].studentId)}]
    /\ UNCHANGED <<courses, enrollments, lastCall>>
    /\ UNCHANGED subVars

MeRespond(p) ==
    /\ procs[p].pc = "me_done"
    /\ procs' = [procs EXCEPT ![p] = IdleProc]
    /\ UNCHANGED <<courses, enrollments, lastCall>>
    /\ UNCHANGED subVars

\* --------------------------------------------------------- specifications
StatusBodies == [status : Statuses]

\* Spec: concurrent enroll calls interleave at their awaits, while teachers
\* create courses and set their status
Next == \/ \E u \in Users, b \in CreateBodies : CreateCourse(u, b)
        \/ \E u \in Users, id \in CourseIds, b \in StatusBodies : PutCourse(u, id, b)
        \/ \E p \in Procs, u \in Users, c \in CourseIds : EnrollBegin(p, u, c)
        \/ \E p \in Procs : EnrollSelectCourse(p)
        \/ \E p \in Procs : EnrollSelectExisting(p)
        \/ \E p \in Procs : EnrollInsert(p)
        \/ \E p \in Procs, throws \in BOOLEAN : EnrollUpdateCount(p, throws)
        \/ \E p \in Procs : EnrollCommit(p)
        \/ \E p \in Procs : EnrollRespond(p)

Spec == Init /\ [][Next]_vars

\* SpecSeq: every route, one request at a time, each served to its answer
\* before the next
NextSeq == \/ Quiescent /\ \E u \in Users, b \in CreateBodies : CreateCourse(u, b)
           \/ Quiescent /\ \E u \in Users, id \in CourseIds, b \in UpdateBodies : PutCourse(u, id, b)
           \/ Quiescent /\ \E u \in Users, c \in CourseIds : PostEnrollments(u, c)
           \/ Quiescent /\ \E p \in Procs, u \in Users, c \in CourseIds : EnrollBegin(p, u, c)
           \/ \E p \in Procs : EnrollSelectCourse(p)
           \/ \E p \in Procs : EnrollSelectExisting(p)
           \/ \E p \in Procs : EnrollInsert(p)
           \/ \E p \in Procs, throws \in BOOLEAN : EnrollUpdateCount(p, throws)
           \/ \E p \in Procs : EnrollCommit(p)
           \/ \E p \in Procs : EnrollRespond(p)
           \/ Quiescent /\ \E p \in Procs, u \in Users : ListBegin(p, u)
           \/ \E p \in Procs : ListSelectEnrollments(p)
           \/ \E p \in Procs : ListSelectCourses(p)
           \/ \E p \in Procs : ListRespond(p)

SpecSeq == Init /\ [][NextSeq]_vars

\* SpecScenario: the scenario of one course and its one student: a teacher
\* creates the course with the form's fields, teachers try to set it active,
\* and students who find no other student's row in the course try to enroll,
\* one request at a time, with no persistence failure
ActiveBody == [status |-> "active"]

NextScenario == \/ Quiescent /\ \E u \in Users : CreateCourse(u, EmptyBody)
                \/ Quiescent /\ \E u \in Users, id \in CourseIds : PutCourse(u, id, ActiveBody)
                \/ Quiescent /\ \E p \in Procs, u \in Users, c \in CourseIds :
                        EnrollBegin(p, u, c) /\ RowsOfCourse(c) = RowsOfPair(u, c)
                \/ \E p \in Procs : EnrollSelectCourse(p)
                \/ \E p \in Procs : EnrollSelectExisting(p)
                \/ \E p \in Procs : EnrollInsert(p)
                \/ \E p \in Procs : EnrollUpdateCount(p, FALSE)
                \/ \E p \in Procs : EnrollCommit(p)
                \/ \E p \in Procs : EnrollRespond(p)

SpecScenario == Init /\ [][NextScenario]_vars

\* SpecStatus: enroll calls one at a time, while teachers create courses and
\* set their status
NextStatus == \/ Quiescent /\ \E u \in Users, b \in CreateBodies : CreateCourse(u, b)
              \/ Quiescent /\ \E u \in Users, id \in CourseIds, b \in StatusBodies : PutCourse(u, id, b)
              \/ Quiescent /\ \E p \in Procs, u \in Users, c \in CourseIds : EnrollBegin(p, u, c)
              \/ \E p \in Procs : EnrollSelectCourse(p)
              \/ \E p \in Procs : EnrollSelectExisting(p)
              \/ \E p \in Procs : EnrollInsert(p)
              \/ \E p \in Procs, throws \in BOOLEAN : EnrollUpdateCount(p, throws)
              \/ \E p \in Procs : EnrollCommit(p)
              \/ \E p \in Procs : EnrollRespond(p)

SpecStatus == Init /\ [][NextStatus]_vars

\* SpecList: list calls one at a time, over the stores that course creation,
\* status updates and POST /api/enrollments build
NextList == \/ Quiescent /\ \E u \in Users, b \in CreateBodies : CreateCourse(u, b)
            \/ Quiescent /\ \E u \in Users, id \in CourseIds, b \in StatusBodies : PutCourse(u, id, b)
            \/ Quiescent /\ \E u \in Users, c \in CourseIds : PostEnrollments(u, c)
            \/ Quiescent /\ \E p \in Procs, u \in Users : ListBegin(p, u)
            \/ \E p \in Procs : ListSelectEnrollments(p)
            \/ \E p \in Procs : ListSelectCourses(p)
            \/ \E p \in Procs : ListRespond(p)
            \/ Quiescent /\ \E p \in Procs, u \in Users : CoursesBegin(p, u)
            \/ \E p \in Procs : CoursesByTeacher(p)
            \/ \E p \in Procs : CoursesSelectEnrollments(p)
            \/ \E p \in Procs : CoursesSelectCourses(p)
            \/ \E p \in Procs : CoursesRespond(p)

SpecList == Init /\ [][NextList]_vars

\* SpecRead: the two course lists of a student, built while enroll calls (one
\* at a time) commit and teachers create courses
NoEnrollInFlight == \A q \in Procs : procs[q].pc \notin TxPcs \cup {"done"}

NextRead == \/ \E u \in Users, b \in CreateBodies : CreateCourse(u, b)
            \/ NoEnrollInFlight /\ \E p \in Procs, u \in Users, c \in CourseIds : EnrollBegin(p, u, c)
            \/ \E p \in Procs : EnrollSelectCourse(p)
            \/ \E p \in Procs : EnrollSelectExisting(p)
            \/ \E p \in Procs : EnrollInsert(p)
            \/ \E p \in Procs : EnrollUpdateCount(p, FALSE)
            \/ \E p \in Procs : EnrollCommit(p)
            \/ \E p \in Procs : EnrollRespond(p)
            \/ \E p \in Procs, u \in Users : ListBegin(p, u)
            \/ \E p \in Procs : ListSelectEnrollments(p)
            \/ \E p \in Procs : ListSelectCourses(p)
            \/ \E p \in Procs : ListRespond(p)
            \/ \E p \in Procs, u \in Users : CoursesBegin(p, u)
            \/ \E p \in Procs : CoursesByTeacher(p)
            \/ \E p \in Procs : CoursesSelectEnrollments(p)
            \/ \E p \in Procs : CoursesSelectCourses(p)
            \/ \E p \in Procs : CoursesRespond(p)

SpecRead == Init /\ [][NextRead]_vars

\* a store after the teachers' set-up: every course created with the form's
\* fields (teachers taking turns) and one assignment created in each course in
\* turn, by POST /api/courses and POST /api/assignments
SeedCourses ==
    [c \in CourseIds |-> [teacherId |-> IF c % 2 = 1 THEN "t1" ELSE "t2",
                          status |-> DefaultStatus,
                          enrollmentCount |-> DefaultEnrollmentCount]]
SeedAssignments ==
    [a \in AssignmentIds |-> LET c == ((a - 1) % MaxCourses) + 1
                             IN  [courseId |-> c, teacherId |-> SeedCourses[c].teacherId]]

InitSubmit ==
    /\ courses = SeedCourses
    /\ enrollments = [pr \in Pairs |-> 0]
    /\ procs = [p \in Procs |-> IdleProc]
    /\ lastCall = NoCall
    /\ assignments = SeedAssignments
    /\ submissions = <<>>

\* the ids a request may name: those of the table and one past them
AssignmentInputs == 1..(MaxAssignments + 1)
SubmissionInputs == 1..(MaxSubmissions + 1)
\* requests that are served one at a time are all served by one process
OneProc == CHOOSE p \in Procs : TRUE

\* SpecSubmitSeq: the submission routes, one request at a time, after the
\* teachers' set-up, while students enroll through POST /api/enrollments
NextSubmitSeq ==
    \/ Quiescent /\ \E u \in Users, c \in CourseIds : PostEnrollments(u, c)
    \/ Quiescent /\ \E u \in Users, b \in SubmissionBodies : PostSubmissions(u, b)
    \/ Quiescent /\ \E u \in Users, a \in AssignmentInputs, ct \in Contents, sid \in {0} \cup SubmissionInputs :
            SubmitBegin(OneProc, u, a, ct, sid)
    \/ \E p \in Procs : SubmitGetAssignment(p)
    \/ \E p \in Procs : SubmitGetCourse(p)
    \/ \E p \in Procs : SubmitSelectEnrollment(p)
    \/ \E p \in Procs : SubmitSelectExisting(p)
    \/ \E p \in Procs : SubmitUpdate(p)
    \/ \E p \in Procs : SubmitInsert(p)
    \/ \E p \in Procs : SubmitRespond(p)

SpecSubmitSeq == InitSubmit /\ [][NextSubmitSeq]_vars

\* the set-up store once every student has enrolled in every course through
\* POST /api/enrollments: every submit call passes the enrollment test
InitEnrolled ==
    /\ courses = SeedCourses
    /\ enrollments = [pr \in Pairs |-> 1]
    /\ procs = [p \in Procs |-> IdleProc]
    /\ lastCall = NoCall
    /\ assignments = SeedAssignments
    /\ submissions = <<>>

\* bodies that carry the required assignmentId and one content
PlainBodies == [assignmentId : AssignmentInputs, content : {"v1"}]

\* SpecSubmitPairs: both entry points of the submissions table, one request at
\* a time, all students enrolled, every request with the same content
NextSubmitPairs ==
    \/ Quiescent /\ \E u \in Users, b \in PlainBodies : PostSubmissions(u, b)
    \/ Quiescent /\ \E u \in Users, a \in AssignmentInputs, sid \in {0} \cup SubmissionInputs :
            SubmitBegin(OneProc, u, a, "v1", sid)
    \/ \E p \in Procs : SubmitGetAssignment(p)
    \/ \E p \in Procs : SubmitGetCourse(p)
    \/ \E p \in Procs : SubmitSelectEnrollment(p)
    \/ \E p \in Procs : SubmitSelectExisting(p)
    \/ \E p \in Procs : SubmitUpdate(p)
    \/ \E p \in Procs : SubmitInsert(p)
    \/ \E p \in Procs : SubmitRespond(p)

SpecSubmitPairs == InitEnrolled /\ [][NextSubmitPairs]_vars

\* SpecSubmit: submit calls without submission id and with one content
\* interleave at their awaits, all students enrolled
NextSubmit ==
    \/ \E p \in Procs, u \in Users, a \in AssignmentIds : SubmitBegin(p, u, a, "v1", 0)
    \/ \E p \in Procs : SubmitGetAssignment(p)
    \/ \E p \in Procs : SubmitGetCourse(p)
    \/ \E p \in Procs : SubmitSelectEnrollment(p)
    \/ \E p \in Procs : SubmitSelectExisting(p)
    \/ \E p \in Procs : SubmitUpdate(p)
    \/ \E p \in Procs : SubmitInsert(p)
    \/ \E p \in Procs : SubmitRespond(p)

SpecSubmit == InitEnrolled /\ [][NextSubmit]_vars

\* the course ids a body of POST /api/assignments may carry
CourseInputs == 1..(MaxCourses + 1)

\* the store once the teachers have created their courses
InitDetails ==
    /\ courses = SeedCourses
    /\ enrollments = [pr \in Pairs |-> 0]
    /\ procs = [p \in Procs |-> IdleProc]
    /\ lastCall = NoCall
    /\ assignments = <<>>
    /\ submissions = <<>>

\* SpecDetails: getSubmissionDetails, one call at a time, while a teacher
\* creates assignments (the call reads no assignment's teacherId) and
\* students enroll and hand in
NextDetails ==
    \/ \E c \in CourseInputs : CreateAssignment("t1", c)
    \/ \E u \in Users, c \in CourseIds : PostEnrollments(u, c)
    \/ \E u \in Users, b \in PlainBodies : PostSubmissions(u, b)
    \/ \E u \in Users, sid \in SubmissionInputs : DetailsBegin(OneProc, u, sid)
    \/ \E p \in Procs : DetailsSelectSubmission(p)
    \/ \E p \in Procs : DetailsGetAssignment(p)
    \/ \E p \in Procs : DetailsGetCourse(p)
    \/ \E p \in Procs : DetailsGetUser(p)
    \/ \E p \in Procs : DetailsRespond(p)

SpecDetails == InitDetails /\ [][NextDetails]_vars


\* SpecDetailsSeeded: getSubmissionDetails, one call at a time, after the
\* teachers' set-up, while students hand in through POST /api/submissions
NextDetailsSeeded ==
    \/ \E u \in Users, b \in PlainBodies : PostSubmissions(u, b)
    \/ \E u \in Users, sid \in SubmissionInputs : DetailsBegin(OneProc, u, sid)
    \/ \E p \in Procs : DetailsSelectSubmission(p)
    \/ \E p \in Procs : DetailsGetAssignment(p)
    \/ \E p \in Procs : DetailsGetCourse(p)
    \/ \E p \in Procs : DetailsGetUser(p)
    \/ \E p \in Procs : DetailsRespond(p)

SpecDetailsSeeded == InitSubmit /\ [][NextDetailsSeeded]_vars

\* SpecAssignments: getAssignmentsForCourse after the teachers' set-up, among
\* enrollments and submissions, one request at a time
NextAssignments ==
    \/ Quiescent /\ \E u \in Users, c \in CourseIds : PostEnrollments(u, c)
    \/ Quiescent /\ \E u \in Users, b \in PlainBodies : PostSubmissions(u, b)
    \/ \E u \in Users, c \in CourseInputs : AssignmentsBegin(OneProc, u, c)
    \/ \E p \in Procs : AssignmentsGetCourse(p)
    \/ \E p \in Procs : AssignmentsSelectEnrollment(p)
    \/ \E p \in Procs : AssignmentsSelectAssignments(p)
    \/ \E p \in Procs : AssignmentsSelectSubmission(p)
    \/ \E p \in Procs : AssignmentsRespond(p)

SpecAssignments == InitSubmit /\ [][NextAssignments]_vars

\* the set-up store with every course created active (POST /api/courses with
\* status "active")
InitActive ==
    /\ courses = [c \in CourseIds |-> [SeedCourses[c] EXCEPT !.status = "active"]]
    /\ enrollments = [pr \in Pairs |-> 0]
    /\ procs = [p \in Procs |-> IdleProc]
    /\ lastCall = NoCall
    /\ assignments = SeedAssignments
    /\ submissions = <<>>

\* SpecFailures: enroll and submit, one request at a time, with persistence
\* failures, after the teachers' set-up
NextFailures ==
    \/ \E u \in Users, c \in CourseInputs : EnrollBegin(OneProc, u, c)
    \/ \E p \in Procs : EnrollSelectCourse(p)
    \/ \E p \in Procs : EnrollSelectExisting(p)
    \/ \E p \in Procs : EnrollInsert(p)
    \/ \E p \in Procs, throws \in BOOLEAN : EnrollUpdateCount(p, throws)
    \/ \E p \in Procs : EnrollCommit(p)
    \/ \E p \in Procs : EnrollFail(p)
    \/ \E p \in Procs : EnrollRespond(p)
    \/ \E u \in Users, a \in AssignmentInputs, sid \in {0} \cup SubmissionInputs :
            SubmitBegin(OneProc, u, a, "v1", sid)
    \/ \E p \in Procs : SubmitGetAssignment(p)
    \/ \E p \in Procs : SubmitGetCourse(p)
    \/ \E p \in Procs : SubmitSelectEnrollment(p)
    \/ \E p \in Procs : SubmitSelectExisting(p)
    \/ \E p \in Procs : SubmitUpdate(p)
    \/ \E p \in Procs : SubmitInsert(p)
    \/ \E p \in Procs : SubmitFail(p)
    \/ \E p \in Procs : SubmitCatch(p)
    \/ \E p \in Procs : SubmitRespond(p)

SpecFailures == InitActive /\ [][NextFailures]_vars

\* SpecResponses: the answers that carry a user row, GET /api/auth/me and
\* GET /api/submissions/:submissionId, one request at a time, after the
\* teachers' set-up, while students hand in through POST /api/submissions
NextResponses ==
    \/ \E u \in Users, b \in PlainBodies : PostSubmissions(u, b)
    \/ \E u \in Users : MeBegin(OneProc, u)
    \/ \E p \in Procs : MeGetUser(p)
    \/ \E p \in Procs : MeRespond(p)
    \/ \E u \in Users, sid \in SubmissionInputs : DetailsBegin(OneProc, u, sid)
    \/ \E p \in Procs : DetailsSelectSubmission(p)
    \/ \E p \in Procs : DetailsGetAssignment(p)
    \/ \E p \in Procs : DetailsGetCourse(p)
    \/ \E p \in Procs : DetailsGetUser(p)
    \/ \E p \in Procs : DetailsRespond(p)

SpecResponses == InitSubmit /\ [][NextResponses]_vars

\* SpecOwnership: teachers create assignments in the courses of the set-up
\* while students hand in through POST /api/submissions
NextOwnership ==
    \/ \E u \in Users, c \in CourseInputs : CreateAssignment(u, c)
    \/ \E u \in Users, b \in PlainBodies : PostSubmissions(u, b)

SpecOwnership == InitDetails /\ [][NextOwnership]_vars

\* ------------------------------------------------------------------ claims
Min(a, b) == IF a <= b THEN a ELSE b
Done(p) == procs[p].pc = "done"
Answered(p) == Done(p) /\ procs[p].res \in {Ok, ErrAlreadyEnrolled}
CountOf(c) == courses[c].enrollmentCount

\* C1: two enroll calls in sequence for a pair whose course is active and
\* whose student is not enrolled: the first succeeds, the second returns the
\* already-enrolled error, and enrollmentCount ends 1 above its value before
\* the first call (calls that met a persistence failure aside).
C1_EnrollTwice ==
    \A p \in Procs :
        (/\ Done(p)
         /\ lastCall.studentId = procs[p].studentId
         /\ lastCall.courseId = procs[p].courseId
         /\ lastCall.res \notin {NoRes, ErrUnexpected}
         /\ procs[p].res # ErrUnexpected)
        => /\ lastCall.res = Ok
           /\ procs[p].res = ErrAlreadyEnrolled
           /\ CountOf(procs[p].courseId) = lastCall.count + 1

\* C2: two concurrent enroll calls for one pair on an active course, the
\* student not enrolled when they start: exactly one succeeds, the other
\* returns the already-enrolled error, one row exists for the pair and
\* enrollmentCount is 1 above the value the calls read.
C2_ConcurrentSamePair ==
    \A p \in Procs : \A q \in Procs \ {p} :
        (/\ Answered(p) /\ Answered(q)
         /\ procs[p].fresh /\ procs[q].fresh
         /\ procs[p].studentId = procs[q].studentId
         /\ procs[p].courseId = procs[q].courseId)
        => /\ {procs[p].res, procs[q].res} = {Ok, ErrAlreadyEnrolled}
           /\ RowsOfPair(procs[p].studentId, procs[p].courseId) = 1
           /\ CountOf(procs[p].courseId) = Min(procs[p].count, procs[q].count) + 1

\* C3: whenever no request is being served, every course's enrollmentCount is
\* at least 0 and equals the number of enrollment rows of the course.
C3_CountMatchesRows ==
    Quiescent => \A c \in ExistingCourseIds : CountOf(c) >= 0 /\ CountOf(c) = RowsOfCourse(c)

\* C4: there is at most one enrollment row for each (student, course) pair.
C4_OneRowPerPair == \A pr \in Pairs : enrollments[pr] <= 1

\* C5: two different students enroll in one active course and both succeed:
\* enrollmentCount is 2 above the value before the two calls.
C5_NoLostIncrement ==
    \A p \in Procs : \A q \in Procs \ {p} :
        (/\ Done(p) /\ Done(q)
         /\ procs[p].res = Ok /\ procs[q].res = Ok
         /\ procs[p].studentId # procs[q].studentId
         /\ procs[p].courseId = procs[q].courseId)
        => CountOf(procs[p].courseId) = Min(procs[p].count, procs[q].count) + 2

\* C6: the step of an enroll call that reads a draft or archived course ends
\* the call with the not-active error and leaves both tables as they were;
\* no call is past that step on a course it read as not active.
C6_InactiveRejected ==
    [][\A p \in Procs :
          (/\ procs[p].pc = "tx_course"
           /\ procs'[p].pc # "tx_course"
           /\ procs[p].courseId \in ExistingCourseIds
           /\ courses[procs[p].courseId].status \in {"draft", "archived"})
          => /\ procs'[p].pc = "done"
             /\ procs'[p].res = ErrNotActive
             /\ courses' = courses
             /\ enrollments' = enrollments]_vars

C6_Witness ==
    \E p \in Procs : /\ Done(p) /\ procs[p].res = ErrNotActive
                     /\ courses[procs[p].courseId].status = "archived"
                     /\ RowsOfCourse(procs[p].courseId) > 0

\* C7: an enroll call that finds the course active returns the
\* already-enrolled error exactly when a row of its own (student, course) pair
\* existed when it started.
C7_ConflictIffPair ==
    \A p \in Procs : Answered(p) => (procs[p].res = ErrAlreadyEnrolled <=> ~procs[p].fresh)

\* C8: an enroll call whose enrollmentCount update fails or matches no row
\* returns "Failed to update course enrollment count." and leaves no row of
\* the pair and the count as the call read it.
C8_UpdateFailure ==
    \A p \in Procs :
        (Done(p) /\ procs[p].res \notin {Ok, ErrCourseNotFound, ErrNotActive, ErrAlreadyEnrolled})
        => /\ procs[p].res = ErrCountUpdate
           /\ RowsOfPair(procs[p].studentId, procs[p].courseId) = 0
           /\ CountOf(procs[p].courseId) = procs[p].count

\* C9: in the scenario a course starts as a draft with enrollmentCount 0; an
\* enroll on a draft course returns the not-active error and the course keeps
\* count 0 and no row; on the active course the enroll of a student without a
\* row succeeds and leaves enrollmentCount 1 and one row; an enroll of a
\* student with a row returns the already-enrolled error.
C9_State ==
    /\ \A c \in ExistingCourseIds :
          courses[c].status = "draft" => CountOf(c) = 0 /\ RowsOfCourse(c) = 0
    /\ \A p \in Procs : Done(p) =>
          LET c == procs[p].courseId
              s == procs[p].studentId
          IN  /\ c \in ExistingCourseIds
                 => procs[p].res = (IF courses[c].status = "draft" THEN ErrNotActive
                                    ELSE IF procs[p].fresh THEN Ok
                                    ELSE ErrAlreadyEnrolled)
              /\ procs[p].res = Ok => CountOf(c) = 1 /\ RowsOfPair(s, c) = 1
              /\ procs[p].res = ErrAlreadyEnrolled => CountOf(c) = 1 /\ RowsOfPair(s, c) = 1

C9_Scenario ==
    /\ []C9_State
    /\ [][Len(courses') > Len(courses)
            => /\ courses'[Len(courses')].status = "draft"
               /\ courses'[Len(courses')].enrollmentCount = 0]_vars

C9_Witness ==
    \E p \in Procs :
        /\ Done(p) /\ procs[p].res = ErrAlreadyEnrolled
        /\ lastCall.res = Ok
        /\ lastCall.studentId = procs[p].studentId /\ lastCall.courseId = procs[p].courseId
        /\ CountOf(procs[p].courseId) = 1

\* C10: for every student and every store, getAvailableCoursesForStudent
\* returns, and what it returns is exactly the set of the active courses for
\* which the student has no enrollment row.
C10_AvailableExact ==
    \A p \in Procs : procs[p].pc \in {"ls_done", "ls_failed"} =>
        /\ procs[p].pc = "ls_done"
        /\ procs[p].result = {c \in ExistingCourseIds :
                                 courses[c].status = "active" /\ RowsOfPair(procs[p].studentId, c) = 0}
\* the course ids of a student's rows, and the two lists as the code builds
\* them from the store of one instant (a failed call returns no list)
EnrolledIds(s) == {c \in CourseIds : RowsOfPair(s, c) > 0}
EnrolledListNow(s) == CoursesGiven(EnrolledIds(s))
AvailableListNow(s) ==
    IF EnrolledIds(s) = {} \/ Bound({"and", "notInArray"}) THEN AvailableGiven(EnrolledIds(s)) ELSE {}

\* C11: the step that completes a student's available list returns no course
\* that the student's enrolled list holds at that moment, and the step that
\* completes the enrolled list returns no course the available list holds at
\* that moment, whatever commits between the queries of the list.
C11_ListsDisjoint ==
    [][\A p \in Procs :
          /\ (procs[p].pc = "ls_courses" /\ procs'[p].pc = "ls_done")
                => procs'[p].result \cap EnrolledListNow(procs[p].studentId) = {}
          /\ (procs[p].pc \in {"cl_enrollments", "cl_courses"} /\ procs'[p].pc = "cl_done")
                => procs'[p].result \cap AvailableListNow(procs[p].studentId) = {}]_vars

\* C12: the course list of a student is exactly the set of the courses the
\* student has an enrollment row for.
C12_EnrolledExact ==
    \A p \in Procs :
        (procs[p].pc = "cl_done" /\ Role(procs[p].studentId) = "student")
        => procs[p].result = {c \in ExistingCourseIds : RowsOfPair(procs[p].studentId, c) > 0}
\* a submit call has returned; the rows of a pair in a table; the student
\* has an enrollment row for the course of the assignment
SubmitDone(p) == procs[p].pc = "sb_done"
PairRows(table, a, s) == {i \in DOMAIN table : table[i].assignmentId = a /\ table[i].studentId = s}
HasEnrollmentFor(s, a) ==
    /\ a \in DOMAIN assignments
    /\ assignments[a].courseId \in ExistingCourseIds
    /\ RowsOfPair(s, assignments[a].courseId) > 0

\* C13: a submit call without submission id by an enrolled student succeeds
\* and leaves one row for its pair, holding the call's content: a new row with
\* status "submitted" if the pair had none (the first call), the pair's row,
\* same id, with status "resubmitted" if it had one (the second call).
C13_SubmitTwice ==
    \A p \in Procs :
        (/\ SubmitDone(p)
         /\ procs[p].submissionId = 0
         /\ HasEnrollmentFor(procs[p].studentId, procs[p].assignmentId))
        => LET old == PairRows(procs[p].before, procs[p].assignmentId, procs[p].studentId)
               now == PairRows(submissions, procs[p].assignmentId, procs[p].studentId)
           IN  /\ procs[p].res = Ok
               /\ now = {procs[p].row}
               /\ submissions[procs[p].row].content = procs[p].content
               /\ IF old = {}
                  THEN /\ procs[p].row \notin DOMAIN procs[p].before
                       /\ submissions[procs[p].row].status = "submitted"
                  ELSE /\ procs[p].row \in old
                       /\ submissions[procs[p].row].status = "resubmitted"

\* the rows a call created or changed
Written(p) == {i \in DOMAIN submissions : i \notin DOMAIN procs[p].before \/ submissions[i] # procs[p].before[i]}

\* C16: a submit call that succeeds has created or changed only rows of its
\* own assignment and student, and one row exists for the pair after it: a
\* submission id of the student's row for another assignment does not get
\* that row overwritten.
C16_OwnPairOnly ==
    \A p \in Procs :
        (SubmitDone(p) /\ procs[p].res = Ok)
        => /\ \A i \in Written(p) : /\ submissions[i].assignmentId = procs[p].assignmentId
                                     /\ submissions[i].studentId = procs[p].studentId
           /\ Cardinality(PairRows(submissions, procs[p].assignmentId, procs[p].studentId)) = 1

\* C17: a submit call of a student with no enrollment row for the course of
\* the assignment returns the not-enrolled error and leaves the submissions
\* table as it was, with or without a submission id.
C17_NotEnrolledRejected ==
    \A p \in Procs :
        (/\ SubmitDone(p)
         /\ procs[p].assignmentId \in DOMAIN assignments
         /\ assignments[procs[p].assignmentId].courseId \in ExistingCourseIds
         /\ ~HasEnrollmentFor(procs[p].studentId, procs[p].assignmentId))
        => /\ procs[p].res = ErrNotEnrolled
           /\ submissions = procs[p].before

\* C18: a submit call of an enrolled student with a submission id that names
\* no row, or a row of another student, returns "Submission to update not
\* found or access denied." and leaves the submissions table as it was.
C18_BadSubmissionId ==
    \A p \in Procs :
        (/\ SubmitDone(p)
         /\ HasEnrollmentFor(procs[p].studentId, procs[p].assignmentId)
         /\ procs[p].submissionId # 0
         /\ \/ procs[p].submissionId \notin DOMAIN procs[p].before
            \/ procs[p].before[procs[p].submissionId].studentId # procs[p].studentId)
        => /\ procs[p].res = ErrSubmissionNotFound
           /\ submissions = procs[p].before

\* C19: a submit call of an enrolled student, without submission id or with
\* the id of the pair's row, on a pair whose one row is graded, succeeds on
\* that row: content becomes the call's, status "resubmitted", and
\* assignmentId, studentId, grade and feedback stay; no other row changes.
C19_GradedReused ==
    \A p \in Procs :
        LET old == PairRows(procs[p].before, procs[p].assignmentId, procs[p].studentId) IN
        (/\ SubmitDone(p)
         /\ HasEnrollmentFor(procs[p].studentId, procs[p].assignmentId)
         /\ Cardinality(old) = 1
         /\ \A g \in old : procs[p].before[g].status = "graded"
         /\ procs[p].submissionId \in {0} \cup old)
        => /\ procs[p].res = Ok
           /\ procs[p].row \in old
           /\ submissions = [procs[p].before EXCEPT ![procs[p].row].content = procs[p].content,
                                                    ![procs[p].row].status = "resubmitted"]

\* C14: with the submission requests served one at a time, through either
\* entry point, there is at most one submission row for each (assignment,
\* student) pair.
C14_OneRowPerPair ==
    \A a \in AssignmentInputs, s \in Students : Cardinality(PairRows(submissions, a, s)) <= 1

C14_Witness ==
    \E p \in Procs :
        /\ SubmitDone(p) /\ procs[p].res = Ok /\ procs[p].submissionId = 0
        /\ procs[p].row \in PairRows(procs[p].before, procs[p].assignmentId, procs[p].studentId)
        /\ procs[p].before[procs[p].row].status = DefaultSubmissionStatus
        /\ Len(submissions) = Len(procs[p].before)
        /\ Len(submissions) >= 2

\* C15: two concurrent submit calls for one pair that had no row when either
\* began, both answered with a row: at most one row exists for the pair.
C15_ConcurrentSubmit ==
    \A p \in Procs : \A q \in Procs \ {p} :
        (/\ SubmitDone(p) /\ SubmitDone(q)
         /\ procs[p].res = Ok /\ procs[q].res = Ok
         /\ procs[p].assignmentId = procs[q].assignmentId
         /\ procs[p].studentId = procs[q].studentId
         /\ PairRows(procs[p].before, procs[p].assignmentId, procs[p].studentId) = {}
         /\ PairRows(procs[q].before, procs[q].assignmentId, procs[q].studentId) = {})
        => Cardinality(PairRows(submissions, procs[p].assignmentId, procs[p].studentId)) <= 1

\* a details call has returned; the row it read belongs to another student
DetailsDone(p) == procs[p].pc = "sd_done"
ReadOthersRow(p) ==
    /\ Role(procs[p].studentId) = "student"
    /\ procs[p].submission # <<>>
    /\ procs[p].submission[1].studentId # procs[p].studentId

\* C20: a details call of a student for a submission that another student
\* owns returns the "Access denied" error of the owner test and no data,
\* whether or not the caller has an enrollment row for the course.
C20_OtherStudentDenied ==
    \A p \in Procs :
        (DetailsDone(p) /\ ReadOthersRow(p))
        => /\ procs[p].res = ErrNotOwner
           /\ procs[p].result = {}

\* C21: a details call of a teacher succeeds only if the caller is the
\* teacher of the course of the submission's assignment, and returns the
\* "Access denied" error of the teacher test if the course has another
\* teacher; a successful call's result carries the student's user row if
\* and only if the caller is a teacher.
C21_TeacherOwnsCourse ==
    \A p \in Procs :
        DetailsDone(p) =>
            LET u == procs[p].studentId
                c == procs[p].courseId
            IN  /\ (Role(u) = "teacher" /\ procs[p].res = Ok)
                      => (c \in ExistingCourseIds /\ courses[c].teacherId = u)
                /\ (Role(u) = "teacher" /\ c \in ExistingCourseIds /\ courses[c].teacherId # u)
                      => (procs[p].res = ErrNotTeacher /\ procs[p].result = {})
                /\ procs[p].res = Ok
                      => \A d \in procs[p].result : (d.student # {}) <=> (Role(u) = "teacher")
                /\ procs[p].res = Ok => procs[p].result # {}

\* a teacher has read a submission of their own course, student included
C21_Witness ==
    \E p \in Procs :
        /\ DetailsDone(p) /\ Role(procs[p].studentId) = "teacher" /\ procs[p].res = Ok
        /\ \E d \in procs[p].result : d.student = {UserRow(d.submission.studentId)}

\* C22: an assignments call for an existing course. A student without an
\* enrollment row for the course gets the not-enrolled error; a student's
\* successful call lists every assignment of the course, each with the
\* status and id of a submission of that student for that assignment, or
\* with "not-submitted" and no id if the student has none. A teacher of
\* another course gets the not-authorized error; a teacher's successful call
\* lists the assignments with no annotation.
C22_AssignmentsForCourse ==
    \A p \in Procs :
        (procs[p].pc = "as_done" /\ procs[p].courseId \in ExistingCourseIds) =>
            LET u == procs[p].studentId
                c == procs[p].courseId
                ofCourse == {a \in DOMAIN assignments : assignments[a].courseId = c}
            IN  IF Role(u) = "student"
                THEN /\ RowsOfPair(u, c) = 0
                          => (procs[p].res = ErrStudentNotEnrolled /\ procs[p].result = {})
                     /\ procs[p].res = Ok =>
                          /\ {d.id : d \in procs[p].result} = ofCourse
                          /\ \A d \in procs[p].result :
                                LET own == PairRows(submissions, d.id, u)
                                IN  IF own = {}
                                    THEN d.submissionStatus = {NotSubmitted} /\ d.submissionId = {}
                                    ELSE \E i \in own : /\ d.submissionId = {i}
                                                        /\ d.submissionStatus = {submissions[i].status}
                ELSE /\ courses[c].teacherId # u
                          => (procs[p].res = ErrTeacherNotAuthorized /\ procs[p].result = {})
                     /\ procs[p].res = Ok => procs[p].result = {Unannotated(a) : a \in ofCourse}

\* C23: no row of the submissions table, all of which students' requests
\* created, holds a grade, a feedback text or the status "graded".
C23_GradingTeacherOnly ==
    \A i \in DOMAIN submissions :
        /\ submissions[i].grade = Null
        /\ submissions[i].feedback = Null
        /\ submissions[i].status # "graded"

\* C24: no call of enroll or submit ends by throwing to the route that made
\* it: every call that fails, a persistence failure included, returns an
\* error value.
C24_NeverThrows ==
    \A p \in Procs : procs[p].pc \notin {"tx_thrown", "sb_thrown"}

\* C25: the step of an enroll call that reads the course ends the call with
\* the not-found error if the course is missing and with the not-active
\* error if it is not active, whether or not the student has a row in it,
\* and goes on to the already-enrolled test otherwise; a step that ends a
\* call with one of the three errors leaves both tables as they were.
C25_CheckOrder ==
    [][\A p \in Procs :
          LET c == procs[p].courseId
              failed == /\ procs[p].pc \in TxPcs
                        /\ procs'[p].pc = "done"
                        /\ procs'[p].res \in {ErrCourseNotFound, ErrNotActive, ErrAlreadyEnrolled}
          IN  /\ (procs[p].pc = "tx_course" /\ procs'[p].pc # "tx_course") =>
                    IF c \notin ExistingCourseIds
                    THEN procs'[p].pc = "done" /\ procs'[p].res = ErrCourseNotFound
                    ELSE IF courses[c].status # "active"
                    THEN procs'[p].pc = "done" /\ procs'[p].res = ErrNotActive
                    ELSE procs'[p].pc = "tx_existing"
              /\ (failed /\ procs'[p].res = ErrAlreadyEnrolled) => procs[p].pc = "tx_existing"
              /\ failed => (courses' = courses /\ enrollments' = enrollments)]_vars

\* a student with a row in a course that is no longer active was answered
\* with the not-active error
C25_Witness ==
    \E p \in Procs : /\ Done(p) /\ procs[p].res = ErrNotActive
                     /\ RowsOfPair(procs[p].studentId, procs[p].courseId) > 0
                     /\ courses[procs[p].courseId].status = "draft"

\* C26: the submit route answers a returned call with 201 exactly when the
\* call inserted a row and with 200 exactly when it updated a row that was
\* there, with or without a submission id in the request.
C26_StatusByWrite ==
    \A p \in Procs :
        SubmitDone(p) =>
            LET wrote == procs[p].res = Ok
                inserted == wrote /\ procs[p].row \notin DOMAIN procs[p].before
                updated == wrote /\ procs[p].row \in DOMAIN procs[p].before
            IN  /\ SubmitStatus(p) = 201 <=> inserted
                /\ SubmitStatus(p) = 200 <=> updated

\* C27: the lookup by assignment and student returns only rows of that
\* assignment and that student, so POST /api/submissions answers "Assignment
\* already submitted" exactly when the calling student has a row for the
\* assignment.
C27_LookupByPair ==
    \A a \in AssignmentInputs, u \in Students :
        /\ \A i \in SubmissionByAssignmentAndStudent(a, u) :
              submissions[i].assignmentId = a /\ submissions[i].studentId = u
        /\ AlreadySubmitted(u, a) <=> PairRows(submissions, a, u) # {}

\* C28: in every state the student of every submissions row has an
\* enrollment row for the course of the row's assignment.
C28_SubmitterEnrolled ==
    \A i \in DOMAIN submissions :
        HasEnrollmentFor(submissions[i].studentId, submissions[i].assignmentId)

\* C29: no answer carries a password: neither the user row GET /api/auth/me
\* answers with, nor the student's user row in the details a teacher gets.
C29_NoPassword ==
    \A p \in Procs :
        /\ procs[p].pc = "me_done" => \A row \in procs[p].result : "password" \notin DOMAIN row
        /\ (DetailsDone(p) /\ procs[p].res = Ok)
             => \A d \in procs[p].result : \A row \in d.student : "password" \notin DOMAIN row

\* C30: the teacher of every assignments row of an existing course is the
\* teacher of that course: a teacher creates assignments in their own courses
\* only.
C30_OwnCourseOnly ==
    \A a \in DOMAIN assignments :
        assignments[a].courseId \in ExistingCourseIds
            => courses[assignments[a].courseId].teacherId = assignments[a].teacherId

====
